---- MODULE Spec2Model ----
(***************************************************************************)
(* Verification model of the xash3d-sdk draw stream guard                  *)
(* (engine/shared/engine/tri.rs) and of the studio model queries           *)
(* (engine/server/studio.rs).                                              *)
(*                                                                         *)
(* Floating point values are modelled by exact integers: every input the   *)
(* model draws is an integer of small magnitude, for which the f32         *)
(* arithmetic of the source is exact, and a comparison against a quotient  *)
(* is stated after multiplying it out.                                     *)
(***************************************************************************)
EXTENDS Integers, Sequences, FiniteSets, TLC

VARIABLES
    DRAW_LOCK,   \* tri.rs: static mut DRAW_LOCK
    live,        \* the Draw values that exist and have not been dropped
    calls,       \* the engine callbacks invoked so far, in order
    begun,       \* number of Draw::begin calls so far (identifies a Draw)
    panicMsg,    \* message of the panic raised by the last operation, or "none"
    seqdescs,    \* studio.rs: the model's sequence table (mstudioseqdesc_s)
    bonectrls,   \* studio.rs: the model's bone controller table
    controller,  \* the entity's controller-state array (EntityVars)
    ret          \* the last studio call: its name, arguments and result

drawVars == <<DRAW_LOCK, live, calls, begun, panicMsg>>

studioVars == <<seqdescs, bonectrls, controller, ret>>

vars == <<DRAW_LOCK, live, calls, begun, panicMsg, seqdescs, bonectrls, controller, ret>>

----------------------------------------------------------------------------
(* Bounds *)

MaxBegin == 4       \* Draw::begin calls in one behaviour
MaxVertex == 2      \* vertex calls in one behaviour
MaxSeq == 3         \* sequences in a model
MaxCtrl == 2        \* bone controllers in a model
MaxEvents == 2      \* events in a sequence

----------------------------------------------------------------------------
(* engine/shared/engine/tri.rs *)

\* The primitives a stream can be begun with (a subset of enum Primitive).
Primitive == {"Lines", "Triangles"}

\* A TriangleApi wraps the engine's triangleapi_s, whose callbacks are
\* Option<fn>: each may be missing.
TriangleApi == [Begin : BOOLEAN, End : BOOLEAN, Vertex3f : BOOLEAN]

NoPanic == "none"

EngineCall(name, arg) == [fn |-> name, arg |-> arg]

\* The Begin and End callbacks among the engine calls, in order.
BeginEndCalls == SelectSeq(calls, LAMBDA c : c.fn \in {"Begin", "End"})

CountCalls(name) == Len(SelectSeq(calls, LAMBDA c : c.fn = name))

\* Draw::begin_unchecked: unwrap!(tri, Begin)(primitive); Self { tri }
begin_unchecked(tri, primitive) ==
    IF tri.Begin
    THEN /\ calls' = Append(calls, EngineCall("Begin", primitive))
         /\ live' = live \cup {[tri |-> tri, id |-> begun + 1]}
         /\ panicMsg' = NoPanic
    ELSE /\ panicMsg' = "triangleapi_s.Begin is null"
         /\ UNCHANGED <<calls, live>>

\* Draw::begin without the test of DRAW_LOCK.
begin_nocheck(tri, primitive) ==
    /\ begun < MaxBegin
    /\ begun' = begun + 1
    /\ DRAW_LOCK' = TRUE
    /\ begin_unchecked(tri, primitive)

\* Draw::begin
begin(tri, primitive) ==
    /\ begun < MaxBegin
    /\ begun' = begun + 1
    /\ IF DRAW_LOCK
       THEN /\ panicMsg' = "multiple draw streams"
            /\ UNCHANGED <<DRAW_LOCK, live, calls>>
       ELSE /\ DRAW_LOCK' = TRUE
            /\ begin_unchecked(tri, primitive)

\* impl Drop for Draw: end_unchecked_impl, then DRAW_LOCK = false.  The value
\* is gone afterwards whether or not the callback was there.
drop(d) ==
    /\ live' = live \ {d}
    /\ IF d.tri.End
       THEN /\ calls' = Append(calls, EngineCall("End", "()"))
            /\ DRAW_LOCK' = FALSE
            /\ panicMsg' = NoPanic
       ELSE /\ panicMsg' = "triangleapi_s.End is null"
            /\ UNCHANGED <<DRAW_LOCK, calls>>
    /\ UNCHANGED begun

\* Draw::end(self): the body is empty, self goes out of scope.
end(d) == drop(d)

\* Draw::vertex3f(self, ...) -> Self.  When the callback is missing the
\* panic unwinds through the frame that owns self, which drops it.
vertex3f(d) ==
    /\ CountCalls("Vertex3f") < MaxVertex
    /\ IF d.tri.Vertex3f
       THEN /\ calls' = Append(calls, EngineCall("Vertex3f", "xyz"))
            /\ panicMsg' = NoPanic
            /\ UNCHANGED <<DRAW_LOCK, live, begun>>
       ELSE /\ live' = live \ {d}
            /\ IF d.tri.End
               THEN /\ calls' = Append(calls, EngineCall("End", "()"))
                    /\ DRAW_LOCK' = FALSE
               ELSE UNCHANGED <<DRAW_LOCK, calls>>
            /\ panicMsg' = "triangleapi_s.Vertex3f is null"
            /\ UNCHANGED begun

\* No call has been made to the studio model.
NoCall == [op |-> "none"]

\* The lock is free, no stream is open, and no model is loaded.
DrawInit ==
    /\ DRAW_LOCK = FALSE
    /\ live = {}
    /\ calls = <<>>
    /\ begun = 0
    /\ panicMsg = NoPanic
    /\ seqdescs = <<>>
    /\ bonectrls = <<>>
    /\ controller = <<0, 0, 0, 0>>
    /\ ret = NoCall

Begin ==
    /\ \E tri \in TriangleApi, p \in Primitive : begin(tri, p)
    /\ UNCHANGED studioVars

End ==
    /\ \E d \in live : end(d)
    /\ UNCHANGED studioVars

ScopeDrop ==
    /\ \E d \in live : drop(d)
    /\ UNCHANGED studioVars

Vertex ==
    /\ \E d \in live : vertex3f(d)
    /\ UNCHANGED studioVars

DrawNext == Begin \/ End \/ ScopeDrop \/ Vertex

SpecDraw == DrawInit /\ [][DrawNext]_vars

----------------------------------------------------------------------------
(* Properties of the draw stream guard *)

\* The Begin and End callbacks alternate, Begin first.
BeginEndAlternate ==
    \A i \in 1..Len(BeginEndCalls) :
        BeginEndCalls[i].fn = IF i % 2 = 1 THEN "Begin" ELSE "End"

\* C3: at most one Draw exists at a time and it holds the lock; the engine's
\* Begin and End callbacks alternate starting with Begin; and a Draw::begin
\* issued while the lock is held panics with "multiple draw streams" and
\* changes neither the lock, nor the open stream, nor the engine calls.
C3_SingleStream ==
    /\ [](/\ Cardinality(live) <= 1
          /\ (live # {} => DRAW_LOCK)
          /\ BeginEndAlternate)
    /\ [][(DRAW_LOCK /\ begun' # begun) =>
            /\ panicMsg' = "multiple draw streams"
            /\ UNCHANGED <<DRAW_LOCK, live, calls>>]_vars

\* A second begin was refused while a stream was open.
C3_Witness ==
    /\ panicMsg = "multiple draw streams"
    /\ Cardinality(live) = 1
    /\ Len(BeginEndCalls) = 3

\* C4: once no draw session is in progress the lock is released, and End
\* has been invoked once for every stream that was begun.
C4_LockReleased ==
    live = {} => (DRAW_LOCK = FALSE /\ CountCalls("End") = CountCalls("Begin"))

----------------------------------------------------------------------------
(* engine/server/studio.rs: the sequence table and its lookups *)

None == [some |-> FALSE]
Some(x) == [some |-> TRUE, val |-> x]

\* Option::map_or(default, |seq| seq.index())
IndexOr(default, opt) == IF opt.some THEN opt.val.index ELSE default

\* Activity values used by the models (Activity is a transparent i32).
ACT_IDLE == 1
ACT_WALK == 3
ACT_RUN == 4
Activities == {ACT_IDLE, ACT_WALK}

\* Labels are strings of characters; these are the characters in use.
Chars == {"i", "I", "w", "W"}
Lower == [c \in Chars |-> IF c = "I" THEN "i" ELSE IF c = "W" THEN "w" ELSE c]

\* CStrThin::eq_ignore_case: the same length and the same characters up to
\* ASCII case.
EqIgnoreCase(a, b) ==
    /\ Len(a) = Len(b)
    /\ \A k \in 1..Len(a) : Lower[a[k]] = Lower[b[k]]

\* Sequence::FLAG_LOOPING
FLAG_LOOPING == 1

\* One mstudioseqdesc_s, with the events its eventindex/numevents locate.
SeqDesc(label, activity, actweight, flags, numframes, events) ==
    [label |-> label, activity |-> activity, actweight |-> actweight,
     flags |-> flags, numframes |-> numframes, events |-> events]

\* Sequence::new: the index is kept as u32, which every index below numseq
\* (an i32) fits in.
SequenceNew(index) == [index |-> index]

\* Sequence::raw
Raw(seq) == seqdescs[seq.index + 1]

\* Model::sequences_raw: header.numseq descriptors.
numseq == Len(seqdescs)

\* Model::sequences, as the list the iterator yields.
sequences == [k \in 1..numseq |-> SequenceNew(k - 1)]

\* Model::sequences_by_activity
sequences_by_activity(activity) ==
    SelectSeq(sequences, LAMBDA seq : Raw(seq).activity = activity)

\* Model::sequence with the bound test off by one.
sequence_inclusive(index) ==
    IF index <= numseq THEN Some(SequenceNew(index)) ELSE None

\* Model::sequence
sequence(index) ==
    IF index < numseq THEN Some(SequenceNew(index)) ELSE None

\* Iterator::find over Model::sequences, from position k on.
RECURSIVE FindFrom(_, _)
FindFrom(k, name) ==
    IF k > numseq THEN None
    ELSE IF EqIgnoreCase(Raw(sequences[k]).label, name) THEN Some(sequences[k])
    ELSE FindFrom(k + 1, name)

\* Model::find_sequence searching from the back (rfind).
find_sequence_last(name) ==
    LET m == {k \in 1..numseq : EqIgnoreCase(Raw(sequences[k]).label, name)}
    IN  IF m = {} THEN None
        ELSE Some(sequences[CHOOSE k \in m : \A j \in m : j <= k])

\* Model::find_sequence
find_sequence(name) == FindFrom(1, name)

\* Model::find_sequence_index
find_sequence_index(name) == IndexOr(0, find_sequence(name))

\* Iterator::max_by_key folds the candidates keeping the later one unless the
\* earlier one's key is strictly greater.
RECURSIVE MaxByKeyFrom(_, _, _)
MaxByKeyFrom(cands, k, best) ==
    IF k > Len(cands) THEN best
    ELSE MaxByKeyFrom(cands, k + 1,
            IF Raw(best).actweight > Raw(cands[k]).actweight
            THEN best ELSE cands[k])

\* Model::find_sequence_by_activity_heaviest
find_sequence_by_activity_heaviest(activity) ==
    LET cands == sequences_by_activity(activity)
    IN  IF cands = <<>> THEN None ELSE Some(MaxByKeyFrom(cands, 2, cands[1]))

\* Model::find_sequence_index_by_activity_heaviest
find_sequence_index_by_activity_heaviest(activity) ==
    IndexOr(0, find_sequence_by_activity_heaviest(activity))

\* ServerEngine::random_int(low, high): a uniform draw from low..high.  For
\* an empty range nothing is promised: any value between the two bounds.
RandomInt(low, high) == IF low <= high THEN low..high ELSE high..low

\* weight_total after the k-th candidate of the loop.
RECURSIVE WeightTotal(_, _)
WeightTotal(cands, k) ==
    IF k = 0 THEN 0 ELSE WeightTotal(cands, k - 1) + Raw(cands[k]).actweight

\* The values the random source can return to the first k candidates of one
\* call of find_sequence_by_activity: one per candidate; where weight_total
\* is 0 the || short-circuits, no draw is made, and the entry is 0.
RECURSIVE DrawsUpTo(_, _)
DrawsUpTo(cands, k) ==
    IF k = 0 THEN {<<>>}
    ELSE LET range == IF WeightTotal(cands, k) = 0 THEN {0}
                      ELSE RandomInt(0, WeightTotal(cands, k) - 1)
         IN  {Append(d, x) : d \in DrawsUpTo(cands, k - 1), x \in range}

DrawsFor(activity) ==
    LET cands == sequences_by_activity(activity)
    IN  DrawsUpTo(cands, Len(cands))

\* The loop without the weight_total == 0 test.
RECURSIVE ActivityLoop_nozero(_, _, _, _, _)
ActivityLoop_nozero(cands, draws, k, weight_total, r) ==
    IF k > Len(cands) THEN r
    ELSE LET total == weight_total + Raw(cands[k]).actweight
         IN  ActivityLoop_nozero(cands, draws, k + 1, total,
                IF draws[k] < Raw(cands[k]).actweight
                THEN Some(cands[k]) ELSE r)

\* The loop accepting a draw equal to the candidate's weight too (<=).
RECURSIVE ActivityLoop_le(_, _, _, _, _)
ActivityLoop_le(cands, draws, k, weight_total, r) ==
    IF k > Len(cands) THEN r
    ELSE LET total == weight_total + Raw(cands[k]).actweight
         IN  ActivityLoop_le(cands, draws, k + 1, total,
                IF total = 0 \/ draws[k] <= Raw(cands[k]).actweight
                THEN Some(cands[k]) ELSE r)

\* The loop of Model::find_sequence_by_activity from candidate k on.
RECURSIVE ActivityLoop(_, _, _, _, _)
ActivityLoop(cands, draws, k, weight_total, r) ==
    IF k > Len(cands) THEN r
    ELSE LET total == weight_total + Raw(cands[k]).actweight
         IN  ActivityLoop(cands, draws, k + 1, total,
                IF total = 0 \/ draws[k] < Raw(cands[k]).actweight
                THEN Some(cands[k]) ELSE r)

\* Model::find_sequence_by_activity, given the values random_int returns.
find_sequence_by_activity(activity, draws) ==
    ActivityLoop(sequences_by_activity(activity), draws, 1, 0, None)

\* Model::find_sequence_index_by_activity
find_sequence_index_by_activity(activity, draws) ==
    IndexOr(0, find_sequence_by_activity(activity, draws))

----------------------------------------------------------------------------
(* The sequence lookups as a state machine: a model is loaded, then called *)

Weights == {-1, 0, 1, 3}
Labels == {<<"i">>, <<"I">>, <<"w">>}
DefaultLabel == <<"i">>

\* The names and activities the lookups are called with; some are in no model.
Names == Labels \cup {<<"W">>, <<"i", "w">>, <<>>}
QueryActivities == Activities \cup {ACT_RUN}

\* The descriptors a model is built from: any label, or any activity and
\* weight.  Each has one frame and no events.
SeqDescChoices ==
    {SeqDesc(l, ACT_IDLE, 1, 0, 1, <<>>) : l \in Labels}
    \cup {SeqDesc(DefaultLabel, a, w, 0, 1, <<>>) : a \in Activities, w \in Weights}

Models == UNION {[1..n -> SeqDescChoices] : n \in 0..MaxSeq}

\* The usize values Model::sequence is called with.
Indices == 0..(MaxSeq + 2)

Call(op, arg, draws, val) == [op |-> op, arg |-> arg, draws |-> draws, val |-> val]

\* A model is loaded; the draw stream is idle.
SeqInit ==
    /\ seqdescs \in Models
    /\ bonectrls = <<>>
    /\ controller = <<0, 0, 0, 0>>
    /\ ret = NoCall
    /\ DRAW_LOCK = FALSE
    /\ live = {}
    /\ calls = <<>>
    /\ begun = 0
    /\ panicMsg = NoPanic

\* The caller has taken the result of the last call; the next call can be made.
Return ==
    /\ ret # NoCall
    /\ ret' = NoCall
    /\ UNCHANGED <<drawVars, seqdescs, bonectrls, controller>>

CallSequence ==
    /\ ret = NoCall
    /\ \E index \in Indices :
         ret' = Call("sequence", index, <<>>, sequence(index))
    /\ UNCHANGED <<drawVars, seqdescs, bonectrls, controller>>

CallSequences ==
    /\ ret = NoCall
    /\ ret' = Call("sequences", <<>>, <<>>, sequences)
    /\ UNCHANGED <<drawVars, seqdescs, bonectrls, controller>>

CallFindSequence ==
    /\ ret = NoCall
    /\ \E name \in Names :
         ret' = Call("find_sequence", name, <<>>, find_sequence(name))
    /\ UNCHANGED <<drawVars, seqdescs, bonectrls, controller>>

CallFindSequenceIndex ==
    /\ ret = NoCall
    /\ \E name \in Names :
         ret' = Call("find_sequence_index", name, <<>>, find_sequence_index(name))
    /\ UNCHANGED <<drawVars, seqdescs, bonectrls, controller>>

CallFindByActivity ==
    /\ ret = NoCall
    /\ \E activity \in QueryActivities : \E draws \in DrawsFor(activity) :
         ret' = Call("find_sequence_by_activity", activity, draws,
                     find_sequence_by_activity(activity, draws))
    /\ UNCHANGED <<drawVars, seqdescs, bonectrls, controller>>

CallFindIndexByActivity ==
    /\ ret = NoCall
    /\ \E activity \in QueryActivities : \E draws \in DrawsFor(activity) :
         ret' = Call("find_sequence_index_by_activity", activity, draws,
                     find_sequence_index_by_activity(activity, draws))
    /\ UNCHANGED <<drawVars, seqdescs, bonectrls, controller>>

CallFindHeaviest ==
    /\ ret = NoCall
    /\ \E activity \in QueryActivities :
         ret' = Call("find_sequence_by_activity_heaviest", activity, <<>>,
                     find_sequence_by_activity_heaviest(activity))
    /\ UNCHANGED <<drawVars, seqdescs, bonectrls, controller>>

CallFindIndexHeaviest ==
    /\ ret = NoCall
    /\ \E activity \in QueryActivities :
         ret' = Call("find_sequence_index_by_activity_heaviest", activity, <<>>,
                     find_sequence_index_by_activity_heaviest(activity))
    /\ UNCHANGED <<drawVars, seqdescs, bonectrls, controller>>

SeqNext ==
    \/ CallSequence
    \/ CallSequences
    \/ CallFindSequence
    \/ CallFindSequenceIndex
    \/ CallFindByActivity
    \/ CallFindIndexByActivity
    \/ CallFindHeaviest
    \/ CallFindIndexHeaviest
    \/ Return

SpecSeq == SeqInit /\ [][SeqNext]_vars

----------------------------------------------------------------------------
(* Properties of the sequence lookups *)

\* The indices of the sequences tagged with an activity.
WithActivity(activity) ==
    {i \in 0..(numseq - 1) : seqdescs[i + 1].activity = activity}

Weight(i) == seqdescs[i + 1].actweight

Min(S) == CHOOSE x \in S : \A y \in S : x <= y
Max(S) == CHOOSE x \in S : \A y \in S : y <= x

\* C1: find_sequence_by_activity_heaviest returns not-found exactly when no
\* sequence has the activity, and otherwise the lowest index among the
\* sequences of that activity with the maximum activity_weight.
C1_HeaviestFirst ==
    ret.op = "find_sequence_by_activity_heaviest" =>
        LET c == WithActivity(ret.arg)
            heaviest == {i \in c : \A j \in c : Weight(j) <= Weight(i)}
        IN  IF c = {} THEN ret.val = None
            ELSE ret.val = Some(SequenceNew(Min(heaviest)))

\* C2 as claimed: with exactly one sequence of the activity the weighted
\* lookup returns it whatever the draw and the weight; with none, not-found.
C2_SingleCandidate ==
    ret.op = "find_sequence_by_activity" =>
        LET c == WithActivity(ret.arg)
        IN  /\ (c = {} => ret.val = None)
            /\ (Cardinality(c) = 1 => ret.val = Some(SequenceNew(Min(c))))

\* C2: with exactly one sequence of the activity, of weight zero or more, the
\* weighted lookup returns it whatever the draw; with none, not-found.
C2_SingleCandidateNonNegative ==
    ret.op = "find_sequence_by_activity" =>
        LET c == WithActivity(ret.arg)
        IN  /\ (c = {} => ret.val = None)
            /\ (Cardinality(c) = 1 /\ Weight(Min(c)) >= 0
                   => ret.val = Some(SequenceNew(Min(c))))

\* The only sequence of the activity, of weight 0, was returned from a model
\* of three sequences.
C2_Witness ==
    /\ ret.op = "find_sequence_by_activity"
    /\ numseq = 3
    /\ WithActivity(ret.arg) = {1}
    /\ Weight(1) = 0
    /\ ret.val = Some(SequenceNew(1))

\* The candidates the loop of find_sequence_by_activity accepts: those at
\* which weight_total is 0 or the draw is below the candidate's weight.
Accepted(activity, draws) ==
    LET cands == sequences_by_activity(activity)
    IN  {k \in 1..Len(cands) :
            \/ WeightTotal(cands, k) = 0
            \/ draws[k] < Raw(cands[k]).actweight}

\* C9: find_sequence_index returns the lowest index whose label equals the
\* name up to case, and 0 when there is none; the two activity index lookups
\* return the index of the sequence their Option counterpart selects (for the
\* weighted one: the last candidate the draws accept), and 0 when it selects
\* none.
C9_IndexOrZero ==
    /\ ret.op = "find_sequence_index" =>
         LET m == {i \in 0..(numseq - 1) : EqIgnoreCase(seqdescs[i + 1].label, ret.arg)}
         IN  ret.val = IF m = {} THEN 0 ELSE Min(m)
    /\ ret.op = "find_sequence_index_by_activity" =>
         LET cands == sequences_by_activity(ret.arg)
             acc == Accepted(ret.arg, ret.draws)
             opt == find_sequence_by_activity(ret.arg, ret.draws)
         IN  /\ ret.val = IF acc = {} THEN 0 ELSE cands[Max(acc)].index
             /\ ret.val = IF opt = None THEN 0 ELSE opt.val.index
    /\ ret.op = "find_sequence_index_by_activity_heaviest" =>
         LET opt == find_sequence_by_activity_heaviest(ret.arg)
         IN  /\ ret.val = IF opt = None THEN 0 ELSE opt.val.index
             /\ (WithActivity(ret.arg) = {} => ret.val = 0)
             /\ (WithActivity(ret.arg) # {} => ret.val \in WithActivity(ret.arg))

\* A name that differs in case from the labels of sequences 1 and 2, and from
\* no other, was looked up and index 1 returned.
C9_Witness ==
    /\ ret.op = "find_sequence_index"
    /\ numseq = 3
    /\ ret.arg = <<"W">>
    /\ seqdescs[1].label = <<"i">>
    /\ seqdescs[2].label = <<"w">>
    /\ seqdescs[3].label = <<"w">>
    /\ ret.val = 1

\* C10: sequence(i) is found with index i for every i below numseq and is
\* not-found for every other i; sequences() yields numseq descriptors with
\* indices 0, 1, ..., numseq-1 in that order.
C10_SequenceByIndex ==
    /\ ret.op = "sequence" =>
         IF ret.arg < numseq
         THEN ret.val.some /\ ret.val.val.index = ret.arg
         ELSE ret.val = None
    /\ ret.op = "sequences" =>
         /\ Len(ret.val) = numseq
         /\ \A k \in 1..numseq : ret.val[k].index = k - 1

\* sequence(numseq) was looked up on a model of three sequences: not found.
C10_Witness ==
    /\ ret.op = "sequence"
    /\ numseq = 3
    /\ ret.arg = numseq
    /\ ret.val = None

----------------------------------------------------------------------------
(* engine/server/studio.rs: bone controllers *)

\* Motion is a bit set; a value is the set of the flags that are set.
Motion == {"X", "Y", "Z", "XR", "YR", "ZR", "RLOOP"}
Rotations == {"XR", "YR", "ZR"}

\* One mstudiobonecontroller_t.
BoneController(ty, start, end_, index) ==
    [ty |-> ty, start |-> start, end |-> end_, index |-> index]

\* The descriptor at table position index instead of the one with that index.
FindCtrlFrom_position(k, index) ==
    IF index >= 0 /\ index < Len(bonectrls) THEN Some(bonectrls[index + 1]) ELSE None

\* Iterator::find over Model::bone_controllers, from position k on.
RECURSIVE FindCtrlFrom(_, _)
FindCtrlFrom(k, index) ==
    IF k > Len(bonectrls) THEN None
    ELSE IF bonectrls[k].index = index THEN Some(bonectrls[k])
    ELSE FindCtrlFrom(k + 1, index)

\* `x as i32` of the quotient n/d of two floats with n/d >= 0: truncation.
TruncDiv(n, d) == IF d < 0 THEN (-n) \div (-d) ELSE n \div d

\* The wrap without the fold of a range of at most 359 degrees.
WrapRotation_nofold(ctrl, value0) ==
    LET value == IF ctrl.end < ctrl.start THEN -value0 ELSE value0
    IN  IF ctrl.start + 359 >= ctrl.end THEN value
        ELSE IF value > 360 THEN value - TruncDiv(value, 360) * 360
        ELSE IF value < 0 THEN value + (TruncDiv(value, -360) + 1) * 360
        ELSE value

\* The wrap with a negative value brought up by whole turns only (no + 1).
WrapRotation_truncneg(ctrl, value0) ==
    LET value == IF ctrl.end < ctrl.start THEN -value0 ELSE value0
    IN  IF ctrl.start + 359 >= ctrl.end
        THEN LET v1 == IF 2 * value > ctrl.start + ctrl.end + 360
                       THEN value - 360 ELSE value
             IN  IF 2 * v1 < ctrl.start + ctrl.end - 360 THEN v1 + 360 ELSE v1
        ELSE IF value > 360 THEN value - TruncDiv(value, 360) * 360
        ELSE IF value < 0 THEN value + TruncDiv(value, -360) * 360
        ELSE value

\* Lines 584-603: the value after the wrap of a rotation controller.
WrapRotation(ctrl, value0) ==
    LET value == IF ctrl.end < ctrl.start THEN -value0 ELSE value0
    IN  IF ctrl.start + 359 >= ctrl.end
        THEN LET v1 == IF 2 * value > ctrl.start + ctrl.end + 360
                       THEN value - 360 ELSE value
             IN  IF 2 * v1 < ctrl.start + ctrl.end - 360 THEN v1 + 360 ELSE v1
        ELSE IF value > 360 THEN value - TruncDiv(value, 360) * 360
        ELSE IF value < 0 THEN value + (TruncDiv(value, -360) + 1) * 360
        ELSE value

\* The quantization with a cast that keeps the low 8 bits of the quotient.
Setting_wrap(ctrl, value) ==
    LET num == 255 * (value - ctrl.start)
        diff == ctrl.end - ctrl.start
    IN  IF diff = 0 THEN (IF num > 0 THEN 255 ELSE 0)
        ELSE TruncDiv(num, diff) % 256

\* The quantization rounding to the nearest byte instead of truncating.
Setting_round(ctrl, value) ==
    LET num == 255 * (value - ctrl.start)
        diff == ctrl.end - ctrl.start
    IN  IF diff = 0 THEN (IF num > 0 THEN 255 ELSE 0)
        ELSE IF (num >= 0) # (diff > 0) \/ num = 0 THEN 0
        ELSE IF TruncDiv(2 * num + diff, 2 * diff) > 255 THEN 255
        ELSE TruncDiv(2 * num + diff, 2 * diff)

\* Line 606: (255.0 * (value - start) / diff) as u8.  The cast saturates and
\* sends NaN to 0; with diff = 0 the quotient is +inf, -inf or NaN.
Setting(ctrl, value) ==
    LET num == 255 * (value - ctrl.start)
        diff == ctrl.end - ctrl.start
    IN  IF diff = 0 THEN (IF num > 0 THEN 255 ELSE 0)
        ELSE IF (num >= 0) # (diff > 0) \/ num = 0 THEN 0
        ELSE IF TruncDiv(num, diff) > 255 THEN 255
        ELSE TruncDiv(num, diff)

\* Line 611: setting * (1/255) * diff + start, as the fraction num/255.
Reconstructed(ctrl, setting) ==
    [num |-> setting * (ctrl.end - ctrl.start) + 255 * ctrl.start, den |-> 255]

\* The value that is quantized (the local `value` at line 605).
Quantized(ctrl, value) ==
    IF ctrl.ty \cap Rotations # {} THEN WrapRotation(ctrl, value) ELSE value

\* EntityVars::with_controller with the closure of lines 607-610: the slot
\* controller_index of the array of four bytes is overwritten; an index
\* outside the array panics.
NUM_CONTROLLERS == 4
InBounds(index) == index >= 0 /\ index < NUM_CONTROLLERS

\* The call did not return: it panicked.
Panicked(msg) == [panic |-> msg]

\* Model::set_bone_controller
set_bone_controller(index, value) ==
    LET found == FindCtrlFrom(1, index)
    IN  IF ~found.some
        THEN /\ ret' = [op |-> "set_bone_controller", arg |-> <<index, value>>,
                        val |-> None]
             /\ UNCHANGED controller
        ELSE LET ctrl == found.val
                 value1 == Quantized(ctrl, value)
                 setting == Setting(ctrl, value1)
             IN  IF InBounds(index)
                 THEN /\ controller' = [controller EXCEPT ![index + 1] = setting]
                      /\ ret' = [op |-> "set_bone_controller",
                                 arg |-> <<index, value>>,
                                 ctrl |-> ctrl, value |-> value1,
                                 setting |-> setting,
                                 val |-> Some(Reconstructed(ctrl, setting))]
                 ELSE /\ ret' = [op |-> "set_bone_controller",
                                 arg |-> <<index, value>>,
                                 ctrl |-> ctrl, value |-> value1,
                                 setting |-> setting,
                                 val |-> Panicked("index out of bounds")]
                      /\ UNCHANGED controller

----------------------------------------------------------------------------
(* set_bone_controller as a state machine: a model and an entity, one call *)

\* The ranges of the descriptors: rotations with a range of at most 359
\* degrees (one of them inverted, one with a midpoint that is not a whole
\* degree), rotations with a wider range, a translation and an empty range.
CtrlRanges ==
    {<<{"YR"}, -170, 170>>, <<{"XR"}, 0, 45>>, <<{"ZR"}, 30, -30>>,
     <<{"XR", "RLOOP"}, -180, 180>>, <<{"X", "ZR"}, 0, 720>>,
     <<{"X"}, 0, 90>>, <<{"Y"}, 10, 10>>}

\* The index fields of the descriptors; 4 is outside the entity's array.
CtrlSlots == {0, 1, 4}

CtrlChoices ==
    {BoneController(r[1], r[2], r[3], i) : r \in CtrlRanges, i \in CtrlSlots}

CtrlTables == UNION {[1..n -> CtrlChoices] : n \in 0..MaxCtrl}

\* The controller indices and the values set_bone_controller is called with.
CtrlIndices == CtrlSlots \cup {2}
Values ==
    {-900, -720, -541, -540, -370, -360, -338, -337, -200, -181, -180, -158,
     -157, -10, 0, 1, 45, 89, 90, 180, 181, 200, 202, 203, 359, 360, 361, 540, 541, 562,
     563, 720, 725, 900}

CtrlInit ==
    /\ bonectrls \in CtrlTables
    /\ controller \in {<<0, 0, 0, 0>>, <<255, 128, 1, 77>>}
    /\ ret = NoCall
    /\ seqdescs = <<>>
    /\ DRAW_LOCK = FALSE
    /\ live = {}
    /\ calls = <<>>
    /\ begun = 0
    /\ panicMsg = NoPanic

SetBoneController ==
    /\ ret = NoCall
    /\ \E index \in CtrlIndices, value \in Values : set_bone_controller(index, value)
    /\ UNCHANGED <<drawVars, seqdescs, bonectrls>>

CtrlNext == SetBoneController

SpecCtrl == CtrlInit /\ [][CtrlNext]_vars

----------------------------------------------------------------------------
(* Properties of the rotation wrap *)

\* The last call was set_bone_controller and it found a rotation descriptor.
RotationCall ==
    /\ ret.op = "set_bone_controller"
    /\ ret.val # None
    /\ ret.ctrl.ty \cap Rotations # {}

\* The input of the last call after the negation applied when end < start.
Negated == IF ret.ctrl.end < ret.ctrl.start THEN -ret.arg[2] ELSE ret.arg[2]

\* x lies within dist of the midpoint of the range (all doubled, the
\* midpoint need not be whole).
NearMid(x, dist) ==
    /\ 2 * x >= ret.ctrl.start + ret.ctrl.end - 2 * dist
    /\ 2 * x <= ret.ctrl.start + ret.ctrl.end + 2 * dist

\* C5 as claimed: for a rotation with start + 359 >= end the quantized value
\* lies in [mid-180, mid+180] for every input.
C5_FoldedIntoWindow ==
    (RotationCall /\ ret.ctrl.start + 359 >= ret.ctrl.end) => NearMid(ret.value, 180)

\* C5: for a rotation with start + 359 >= end the quantized value is the
\* input (after the negation) moved by at most one turn, and it lies in
\* [mid-180, mid+180] for every input that lies in [mid-540, mid+540].
C5_FoldedOnce ==
    (RotationCall /\ ret.ctrl.start + 359 >= ret.ctrl.end) =>
        /\ ret.value \in {Negated, Negated - 360, Negated + 360}
        /\ (NearMid(Negated, 540) => NearMid(ret.value, 180))

\* The range -170..170 was called with 200, which was folded to -160.
C5_Witness ==
    /\ RotationCall
    /\ ret.ctrl.start = -170
    /\ ret.ctrl.end = 170
    /\ ret.arg[2] = 200
    /\ ret.value = -160

\* C6 as claimed: for a rotation with start + 359 < end the quantized value
\* lies in [0, 360) and is congruent to the input modulo 360.
C6_WrappedBelow360 ==
    (RotationCall /\ ret.ctrl.start + 359 < ret.ctrl.end) =>
        /\ 0 <= ret.value /\ ret.value < 360
        /\ (ret.value - ret.arg[2]) % 360 = 0

\* C6: for a rotation with start + 359 < end the quantized value is congruent
\* to the input modulo 360 and lies in [0, 360]; it is 360 exactly when the
\* input is 360 or a negative multiple of 360.
C6_WrappedUpTo360 ==
    (RotationCall /\ ret.ctrl.start + 359 < ret.ctrl.end) =>
        /\ 0 <= ret.value /\ ret.value <= 360
        /\ (ret.value - ret.arg[2]) % 360 = 0
        /\ ret.value = 360 <=>
             (ret.arg[2] = 360 \/ (ret.arg[2] < 0 /\ ret.arg[2] % 360 = 0))

\* The range -180..180 was called with -370, which was wrapped to 350.
C6_Witness ==
    /\ RotationCall
    /\ ret.ctrl.start = -180
    /\ ret.ctrl.end = 180
    /\ ret.arg[2] = -370
    /\ ret.value = 350

----------------------------------------------------------------------------
(* engine/server/studio.rs: the events of a sequence *)

\* EventKind::CLIENT
CLIENT == 5000

\* EventKind::is_client
is_client(kind) == kind >= CLIENT

\* One mstudioevent_s.
Event(frame, kind, options) == [frame |-> frame, event |-> kind, options |-> options]

\* Sequence::events
events(seq) == Raw(seq).events

\* Sequence::frames
frames(seq) == Raw(seq).numframes

\* Sequence::is_looping: flags & FLAG_LOOPING != 0, FLAG_LOOPING being one bit.
is_looping(seq) == Raw(seq).flags % (2 * FLAG_LOOPING) >= FLAG_LOOPING

\* The window scaled by the frame count instead of the last frame.
Window_frames(seq, start, end_) ==
    IF frames(seq) > 1
    THEN <<start * frames(seq), end_ * frames(seq)>>
    ELSE <<0, 256>>

\* Lines 443-450: the window (start, end) in frames, as numerators over 256.
Window(seq, start, end_) ==
    IF frames(seq) > 1
    THEN <<start * (frames(seq) - 1), end_ * (frames(seq) - 1)>>
    ELSE <<0, 256>>

\* The closure with the wrap measured from the last frame (frames - 1).
Matches_lastframe(seq, w, event) ==
    IF ~is_client(event.event)
    THEN IF 256 * event.frame >= w[1] /\ 256 * event.frame < w[2]
         THEN TRUE
         ELSE IF /\ is_looping(seq)
                 /\ w[2] >= 256 * (frames(seq) - 1)
                 /\ 256 * event.frame < w[2] - 256 * (frames(seq) - 1)
              THEN TRUE
              ELSE FALSE
    ELSE FALSE

\* Lines 452-466: the closure of the filter, for an event and a window w.
Matches(seq, w, event) ==
    IF ~is_client(event.event)
    THEN IF 256 * event.frame >= w[1] /\ 256 * event.frame < w[2]
         THEN TRUE
         ELSE IF /\ is_looping(seq)
                 /\ w[2] >= 256 * (frames(seq) - 1)
                 /\ 256 * event.frame < w[2] - 256 * (frames(seq) + 1)
              THEN TRUE
              ELSE FALSE
    ELSE FALSE

\* Iterator::filter over the events from position k on; what it yields, as
\* positions in Sequence::events.
RECURSIVE FilterFrom(_, _, _)
FilterFrom(seq, w, k) ==
    IF k > Len(events(seq)) THEN <<>>
    ELSE IF Matches(seq, w, events(seq)[k])
         THEN <<k>> \o FilterFrom(seq, w, k + 1)
         ELSE FilterFrom(seq, w, k + 1)

\* Sequence::animation_events
animation_events(seq, start, end_) == FilterFrom(seq, Window(seq, start, end_), 1)

----------------------------------------------------------------------------
(* animation_events as a state machine: a model of one sequence, then calls *)

EventFrames == {-3, 0, 5, 9}
EventKinds == {1004, 4999, 5000}
EventChoices == {Event(f, k, <<>>) : f \in EventFrames, k \in EventKinds}
EventLists == UNION {[1..n -> EventChoices] : n \in 0..MaxEvents}

FrameCounts == {0, 1, 2, 10}
SeqFlags == {0, 1, 32768, 32769}

\* The windows animation_events is called with, in 1/256 of the sequence.
Starts == {0, 64, 200}
Ends == {64, 256, 300, 512}

EventsInit ==
    /\ seqdescs \in {<<SeqDesc(DefaultLabel, ACT_IDLE, 1, fl, n, ev)>> :
                        fl \in SeqFlags, n \in FrameCounts, ev \in EventLists}
    /\ bonectrls = <<>>
    /\ controller = <<0, 0, 0, 0>>
    /\ ret = NoCall
    /\ DRAW_LOCK = FALSE
    /\ live = {}
    /\ calls = <<>>
    /\ begun = 0
    /\ panicMsg = NoPanic

CallAnimationEvents ==
    /\ ret = NoCall
    /\ \E start \in Starts, end_ \in Ends :
         ret' = Call("animation_events", <<start, end_>>, <<>>,
                     animation_events(SequenceNew(0), start, end_))
    /\ UNCHANGED <<drawVars, seqdescs, bonectrls, controller>>

EventsNext == CallAnimationEvents \/ Return

SpecEvents == EventsInit /\ [][EventsNext]_vars

----------------------------------------------------------------------------
(* Properties of animation_events *)

\* The descriptor of the one sequence of the model.
TheSeq == seqdescs[1]

\* The window of the last call in frames, times 256.
StartTimes256 ==
    IF TheSeq.numframes > 1 THEN ret.arg[1] * (TheSeq.numframes - 1) ELSE 0
EndTimes256 ==
    IF TheSeq.numframes > 1 THEN ret.arg[2] * (TheSeq.numframes - 1) ELSE 256

\* The event at position k is not a client event and its frame is in the
\* window [start, end).
InWindow(k) ==
    /\ TheSeq.events[k].event < 5000
    /\ 256 * TheSeq.events[k].frame >= StartTimes256
    /\ 256 * TheSeq.events[k].frame < EndTimes256

\* The event at position k is not a client event, the end of the window is at
\* or after the last frame, and its frame is below end - (frame_count + 1).
Wrapped(k) ==
    /\ TheSeq.events[k].event < 5000
    /\ EndTimes256 >= 256 * (TheSeq.numframes - 1)
    /\ 256 * TheSeq.events[k].frame < EndTimes256 - 256 * (TheSeq.numframes + 1)

\* The last call yielded exactly the events at the positions S, in stored order.
Yielded(S) ==
    /\ \A i \in 1..Len(ret.val), j \in 1..Len(ret.val) : i < j => ret.val[i] < ret.val[j]
    /\ {ret.val[i] : i \in 1..Len(ret.val)} = S

\* C7: for a sequence that is not looping, animation_events yields, in stored
\* order, exactly the events that are not client events and whose frame lies
\* in [start*(frame_count-1)/256, end*(frame_count-1)/256), or in [0, 1) when
\* frame_count <= 1.
C7_NonLoopingWindow ==
    (ret.op = "animation_events" /\ TheSeq.flags % 2 = 0) =>
        Yielded({k \in 1..Len(TheSeq.events) : InWindow(k)})

\* A sequence of 10 frames that is not looping, with an event at frame 5
\* first, was queried with (0, 256) and yielded it.
C7_Witness ==
    /\ ret.op = "animation_events"
    /\ TheSeq.flags = 0
    /\ TheSeq.numframes = 10
    /\ Len(TheSeq.events) = 2
    /\ TheSeq.events[1].frame = 5
    /\ TheSeq.events[2].event = 5000
    /\ ret.arg = <<0, 256>>
    /\ ret.val = <<1>>

\* C8: for a looping sequence, animation_events yields, in stored order,
\* exactly the events that are not client events and are in the window or,
\* when the end of the window is at or after the last frame, have a frame
\* below end - (frame_count + 1); no client event is yielded.
C8_LoopingWrap ==
    (ret.op = "animation_events" /\ TheSeq.flags % 2 = 1) =>
        /\ Yielded({k \in 1..Len(TheSeq.events) : InWindow(k) \/ Wrapped(k)})
        /\ \A i \in 1..Len(ret.val) : TheSeq.events[ret.val[i]].event < 5000

\* A looping sequence of 10 frames with an event at frame 5 was queried with
\* (200, 512): frame 5 is before the window and was yielded by the wrap.
C8_Witness ==
    /\ ret.op = "animation_events"
    /\ TheSeq.flags = 1
    /\ TheSeq.numframes = 10
    /\ Len(TheSeq.events) = 2
    /\ TheSeq.events[1].frame = 5
    /\ TheSeq.events[2].frame = 9
    /\ ret.arg = <<200, 512>>
    /\ ret.val = <<1, 2>>

----------------------------------------------------------------------------
(* engine/server/studio.rs: Sequence::precache *)

\* EventKind::SCRIPT_SOUND, EventKind::SCRIPT_SOUND_VOICE
SCRIPT_SOUND == 1004
SCRIPT_SOUND_VOICE == 1008

\* is_script_sound matching the body channel only.
is_script_sound_body(kind) == kind = SCRIPT_SOUND

\* EventKind::is_script_sound
is_script_sound(kind) == kind \in {SCRIPT_SOUND, SCRIPT_SOUND_VOICE}

\* What the handling of one event does: a call of the engine's
\* precache_sound, or the diagnostic of error!.  pos is the event's position.
Effect(fn, pos, arg) == [fn |-> fn, pos |-> pos, arg |-> arg]

\* The loop of Sequence::precache from event k on: its effects, in order.
RECURSIVE PrecacheFrom(_, _)
PrecacheFrom(seq, k) ==
    IF k > Len(events(seq)) THEN <<>>
    ELSE LET event == events(seq)[k]
         IN  IF event.event >= CLIENT THEN PrecacheFrom(seq, k + 1)
             ELSE IF ~is_script_sound(event.event) THEN PrecacheFrom(seq, k + 1)
             ELSE IF event.options # <<>>
                  THEN <<Effect("precache_sound", k, event.options)>>
                           \o PrecacheFrom(seq, k + 1)
                  ELSE <<Effect("error", k, event.event)>>
                           \o PrecacheFrom(seq, k + 1)

\* Sequence::precache
precache(seq) == PrecacheFrom(seq, 1)

----------------------------------------------------------------------------
(* precache as a state machine: a model of one sequence, then calls *)

\* Sound names: empty, or one of two names.
SoundNames == {<<>>, <<"a">>, <<"b">>}
PrecacheKinds == {1003, SCRIPT_SOUND, SCRIPT_SOUND_VOICE, CLIENT}
PrecacheChoices == {Event(0, k, o) : k \in PrecacheKinds, o \in SoundNames}
PrecacheLists == UNION {[1..n -> PrecacheChoices] : n \in 0..MaxEvents}

PrecacheInit ==
    /\ seqdescs \in {<<SeqDesc(DefaultLabel, ACT_IDLE, 1, 0, 1, ev)>> :
                        ev \in PrecacheLists}
    /\ bonectrls = <<>>
    /\ controller = <<0, 0, 0, 0>>
    /\ ret = NoCall
    /\ DRAW_LOCK = FALSE
    /\ live = {}
    /\ calls = <<>>
    /\ begun = 0
    /\ panicMsg = NoPanic

CallPrecache ==
    /\ ret = NoCall
    /\ ret' = Call("precache", <<>>, <<>>, precache(SequenceNew(0)))
    /\ UNCHANGED <<drawVars, seqdescs, bonectrls, controller>>

PrecacheNext == CallPrecache \/ Return

SpecPrecache == PrecacheInit /\ [][PrecacheNext]_vars

----------------------------------------------------------------------------
(* Properties of precache *)

\* The positions of the sound events below the client band.
SoundEvents ==
    {k \in 1..Len(TheSeq.events) :
        /\ TheSeq.events[k].event < 5000
        /\ TheSeq.events[k].event \in {1004, 1008}}

\* C11: precache handles the events in stored order and each on its own: a
\* sound event (kind 1004 or 1008) with options causes one precache_sound
\* call with those options, a sound event with empty options causes one
\* diagnostic and no call, and no other event causes anything; so the calls
\* and diagnostics together number the sound events.
C11_PrecachePerEvent ==
    ret.op = "precache" =>
        /\ Len(ret.val) = Cardinality(SoundEvents)
        /\ {ret.val[i].pos : i \in 1..Len(ret.val)} = SoundEvents
        /\ \A i \in 1..Len(ret.val), j \in 1..Len(ret.val) :
               i < j => ret.val[i].pos < ret.val[j].pos
        /\ \A i \in 1..Len(ret.val) :
               LET event == TheSeq.events[ret.val[i].pos]
               IN  IF event.options # <<>>
                   THEN ret.val[i].fn = "precache_sound" /\ ret.val[i].arg = event.options
                   ELSE ret.val[i].fn = "error"

\* A voice sound event without a name was followed by a body sound event
\* with one: a diagnostic, then the precache call.
C11_Witness ==
    /\ ret.op = "precache"
    /\ Len(TheSeq.events) = 2
    /\ TheSeq.events[1] = Event(0, 1008, <<>>)
    /\ TheSeq.events[2] = Event(0, 1004, <<"a">>)
    /\ ret.val = <<Effect("error", 1, 1008), Effect("precache_sound", 2, <<"a">>)>>

----------------------------------------------------------------------------
(* Properties of the quantization of set_bone_controller *)

\* The last call was set_bone_controller and it returned a value.
ControllerSet ==
    /\ ret.op = "set_bone_controller"
    /\ ret.val # None
    /\ ret.val # Panicked("index out of bounds")

\* The width of the range of the descriptor the last call used.
Diff == ret.ctrl.end - ret.ctrl.start

\* C12: for a descriptor that is not a rotation, with start < end and an
\* input in [start, end], the byte stored in the entity's slot is
\* 255*(value-start)/(end-start) truncated, and the value returned is the one
\* reconstructed from it, less than one step (end-start)/255 from the input;
\* start=0, end=90, value=45 stores 127.
C12_TruncatedSetting ==
    (/\ ControllerSet
     /\ ret.ctrl.ty \cap Rotations = {}
     /\ ret.ctrl.start < ret.ctrl.end
     /\ ret.ctrl.start <= ret.arg[2] /\ ret.arg[2] <= ret.ctrl.end) =>
        /\ ret.setting * Diff <= 255 * (ret.arg[2] - ret.ctrl.start)
        /\ 255 * (ret.arg[2] - ret.ctrl.start) < (ret.setting + 1) * Diff
        /\ controller[ret.arg[1] + 1] = ret.setting
        /\ ret.val.val.den = 255
        /\ ret.val.val.num = ret.setting * Diff + 255 * ret.ctrl.start
        /\ 255 * ret.arg[2] - ret.val.val.num < Diff
        /\ ret.val.val.num - 255 * ret.arg[2] < Diff
        /\ (ret.ctrl.start = 0 /\ ret.ctrl.end = 90 /\ ret.arg[2] = 45
               => ret.setting = 127)

\* The translation 0..90 in slot 1 was set to 45: 127 was stored.
C12_Witness ==
    /\ ControllerSet
    /\ ret.ctrl = BoneController({"X"}, 0, 90, 1)
    /\ ret.arg = <<1, 45>>
    /\ controller = <<255, 127, 1, 77>>

\* The table positions of the descriptors whose index field is index.
WithIndex(index) == {k \in 1..Len(bonectrls) : bonectrls[k].index = index}

\* C13: a call of set_bone_controller leaves the model and every slot of the
\* entity's array other than controller_index unchanged; when no descriptor
\* has that index it returns not-found and leaves the whole array unchanged;
\* otherwise the descriptor used is the first in table order with that index.
C13_OneSlotWritten ==
    [][ret'.op = "set_bone_controller" =>
        /\ UNCHANGED <<seqdescs, bonectrls>>
        /\ \A slot \in 1..Len(controller) :
               slot # ret'.arg[1] + 1 => controller'[slot] = controller[slot]
        /\ Len(controller') = Len(controller)
        /\ IF WithIndex(ret'.arg[1]) = {}
           THEN ret'.val = None /\ UNCHANGED controller
           ELSE /\ ret'.val # None
                /\ ret'.ctrl = bonectrls[Min(WithIndex(ret'.arg[1]))]]_vars

\* Index 0 was set on a table whose first descriptor has index 1: the second
\* descriptor was used and only slot 0 of the array changed.
C13_Witness ==
    /\ ControllerSet
    /\ ret.arg[1] = 0
    /\ Len(bonectrls) = 2
    /\ bonectrls[1] = BoneController({"X"}, 0, 90, 1)
    /\ bonectrls[2] = BoneController({"YR"}, -170, 170, 0)
    /\ ret.ctrl = bonectrls[2]
    /\ ret.setting = 7
    /\ controller = <<7, 128, 1, 77>>

----------------------------------------------------------------------------
(* Properties of the weighted selection *)

\* The last call was the weighted lookup of an activity all of whose
\* sequences have positive weights, and every draw it made returned 0: one
\* call for each model and activity, at which all the draws are counted.
PositiveWeightsCall ==
    /\ ret.op = "find_sequence_by_activity"
    /\ WithActivity(ret.arg) # {}
    /\ \A i \in WithActivity(ret.arg) : Weight(i) > 0
    /\ \A k \in 1..Len(ret.draws) : ret.draws[k] = 0

\* The sum of the weights of the sequences in S.
RECURSIVE SumWeights(_)
SumWeights(S) ==
    IF S = {} THEN 0 ELSE LET i == Min(S) IN Weight(i) + SumWeights(S \ {i})

\* C14: when all the sequences of an activity have positive weights, then
\* among all combinations of values the draws of one call can return, the
\* sequence i is the result in the fraction weight(i) / (sum of the weights),
\* and the result is never not-found; with weights 1 and 3 the second is the
\* result for three of the four combinations.
C14_ProportionalToWeight ==
    PositiveWeightsCall =>
        LET c == WithActivity(ret.arg)
            all == DrawsFor(ret.arg)
            won(i) == {d \in all :
                         find_sequence_by_activity(ret.arg, d) = Some(SequenceNew(i))}
        IN  /\ \A i \in c :
                  Cardinality(won(i)) * SumWeights(c) = Weight(i) * Cardinality(all)
            /\ \A d \in all : find_sequence_by_activity(ret.arg, d) # None
            /\ ( /\ Cardinality(c) = 2
                 /\ Weight(Min(c)) = 1
                 /\ Weight(Max(c)) = 3 )
               => Cardinality(all) = 4 /\ Cardinality(won(Max(c))) = 3

\* Sequences 0 and 2 have the activity, with weights 1 and 3.
C14_Witness ==
    /\ PositiveWeightsCall
    /\ numseq = 3
    /\ WithActivity(ret.arg) = {0, 2}
    /\ Weight(0) = 1
    /\ Weight(2) = 3
    /\ ret.val = Some(SequenceNew(2))

----------------------------------------------------------------------------
(* EventKind: the bands of event numbers *)

\* EventKind::SPECIFIC, EventKind::SCRIPTED, EventKind::SHARED
SPECIFIC == 0
SCRIPTED == 1000
SHARED == 2000

\* EventKind::is_specific
is_specific(kind) == kind >= SPECIFIC /\ kind < SCRIPTED

\* EventKind::is_scripted
is_scripted(kind) == kind >= SCRIPTED /\ kind < SHARED

\* The shared band closed at its upper end.
is_shared_closed(kind) == kind >= SHARED /\ kind <= CLIENT

\* EventKind::is_shared
is_shared(kind) == kind >= SHARED /\ kind < CLIENT

\* The raw i32 values classified: around each boundary, the named scripted
\* events, and the two ends of i32.
KindValues ==
    (-20..20) \cup (990..1010) \cup (1990..2010) \cup (4990..5010)
        \cup {-2147483647 - 1, 2147483647}

\* No model is loaded; the draw stream is idle.
KindsInit ==
    /\ seqdescs = <<>>
    /\ bonectrls = <<>>
    /\ controller = <<0, 0, 0, 0>>
    /\ ret = NoCall
    /\ DRAW_LOCK = FALSE
    /\ live = {}
    /\ calls = <<>>
    /\ begun = 0
    /\ panicMsg = NoPanic

\* EventKind::from_raw(kind), then each of the predicates is asked of it.
CallEventKind ==
    /\ ret = NoCall
    /\ \E kind \in KindValues :
          ret' = Call("event_kind", kind, <<>>,
                      [is_specific |-> is_specific(kind),
                       is_scripted |-> is_scripted(kind),
                       is_shared |-> is_shared(kind),
                       is_client |-> is_client(kind),
                       is_script_sound |-> is_script_sound(kind)])
    /\ UNCHANGED <<drawVars, seqdescs, bonectrls, controller>>

KindsNext == CallEventKind \/ Return

SpecKinds == KindsInit /\ [][KindsNext]_vars

\* The band predicates that answered true in the last call.
BandsHolding ==
    {p \in {"is_specific", "is_scripted", "is_shared", "is_client"} : ret.val[p]}

\* C15: of is_specific, is_scripted, is_shared and is_client at most one
\* holds of any kind, exactly one when kind >= 0 and none when kind < 0; the
\* boundaries 0, 1000, 2000 and 5000 belong to the band that starts there; and
\* is_script_sound implies is_scripted.
C15_BandsPartition ==
    ret.op = "event_kind" =>
        /\ Cardinality(BandsHolding) <= 1
        /\ ret.arg >= 0 => Cardinality(BandsHolding) = 1
        /\ ret.arg < 0 => BandsHolding = {}
        /\ ret.arg = 0 => ret.val.is_specific
        /\ ret.arg = 1000 => ret.val.is_scripted
        /\ ret.arg = 2000 => ret.val.is_shared
        /\ ret.arg = 5000 => ret.val.is_client
        /\ ret.val.is_script_sound => ret.val.is_scripted

\* The kind at the boundary of the shared and the client bands was classified.
C15_Witness ==
    /\ ret.op = "event_kind"
    /\ ret.arg = 5000
    /\ BandsHolding = {"is_client"}

----------------------------------------------------------------------------
(* Properties of the quantization over the whole input range *)

\* 255 * (value - start), the numerator of the quotient that is cast to u8.
Num == 255 * (ret.value - ret.ctrl.start)

\* C16: for a descriptor with start # end and any input, the byte stored is
\* 0 when the quotient 255*(value-start)/(end-start) is below 0, 255 when it
\* is above 255 (never its value modulo 256), and its truncation otherwise;
\* the value returned is reconstructed from the byte stored in the entity's
\* slot, setting/255*(end-start)+start, and lies between start and end.
C16_ClampedSetting ==
    (ControllerSet /\ Diff # 0) =>
        LET lo == Min({ret.ctrl.start, ret.ctrl.end})
            hi == Max({ret.ctrl.start, ret.ctrl.end})
            quot255 == IF Diff > 0 THEN Num - 255 * Diff ELSE 255 * Diff - Num
            absNum == IF Num >= 0 THEN Num ELSE -Num
        IN  /\ ret.setting \in 0..255
            /\ Num * Diff < 0 => ret.setting = 0
            /\ quot255 > 0 => ret.setting = 255
            /\ (Num * Diff >= 0 /\ quot255 <= 0) =>
                   /\ ret.setting * (hi - lo) <= absNum
                   /\ absNum < (ret.setting + 1) * (hi - lo)
            /\ controller[ret.arg[1] + 1] = ret.setting
            /\ ret.val = Some([num |-> controller[ret.arg[1] + 1] * Diff
                                          + 255 * ret.ctrl.start,
                               den |-> 255])
            /\ 255 * lo <= ret.val.val.num
            /\ ret.val.val.num <= 255 * hi

\* The input 540 is folded to 180, ten degrees above the range [-170, 170]:
\* the quotient is 262, the byte stored is 255 and not 262 % 256 = 6.
C16_Witness ==
    /\ ControllerSet
    /\ ret.ctrl = BoneController({"YR"}, -170, 170, 0)
    /\ ret.arg = <<0, 540>>
    /\ ret.value = 180
    /\ TruncDiv(Num, Diff) = 262
    /\ ret.setting = 255
    /\ controller[1] = 255
    /\ ret.val = Some([num |-> 255 * 170, den |-> 255])

====
